---- MODULE Spec2Model ----
(***************************************************************************)
(* Token ledger, wallets, audit log and the admin operations of the       *)
(* AI-VFX admin dashboard backend (backend/app).  The database is         *)
(* PostgreSQL at its default isolation level (READ COMMITTED): every      *)
(* statement of a request sees the rows committed so far, and a request   *)
(* handler is a sequence of statements on its own SQLAlchemy session.     *)
(***************************************************************************)
EXTENDS Integers, Sequences, FiniteSets, TLC

\* ------------------------------------------------------------------ bounds
NumUsers == 2       \* rows of the shared users table: ids 1..NumUsers
NumSessions == 2    \* requests that can be in flight at once
MaxRequests == 2    \* writing requests (grants, user operations) admitted
MaxReads == 2       \* reading requests admitted
MaxSeedTx == 1      \* transactions the seed inserts
MaxAmount == 2      \* largest amount a grant request carries
MaxDebit == 3       \* largest magnitude of a debit
MaxTime == 1        \* clock values 0..MaxTime
NumJobs == 1        \* rows of generation_jobs: ids 1..NumJobs
MaxLedger == 4      \* transactions of the ledgers the aggregates are tried on
MaxAssets == 4      \* reference and generated images together
DayLength == 2      \* clock values in one UTC day
MaxTrendTx == 2     \* transactions of the ledgers the daily trend is tried on
MaxEvents == 2      \* rows of event_logs
NumStaff == 2       \* rows of staff_accounts: ids 1..NumStaff
MaxPage == 2        \* pages a listing request asks for
MaxLimit == 2       \* page sizes a listing request asks for

UserIds == 1..NumUsers
NoUser == 0                       \* a user id with no row in users
ReqUserIds == {NoUser} \cup UserIds
Sessions == 1..NumSessions
Amounts == (0 - 1)..MaxAmount     \* amounts of grant requests
SeedAmounts == {0 - 2, 1}         \* amounts of seeded transactions
LedgerAmounts == {0 - 3, 0 - 2, 5, 10}   \* amounts of the ledgers aggregated
admin_staff == 1                  \* id of the seeded staff account
NoAdmin == 0                      \* created_by_admin_id IS NULL
Reason == "bonus"
StaffIds == 1..NumStaff
NoStaff == 0                      \* a token subject with no row in staff_accounts
\* the role names the model distinguishes (seed.py:57)
Roles == {"admin", "owner", "billing"}
\* StaffUpdate.role_names is None
NoRoleNames == {"null"}
JobIds == 1..NumJobs
NoJob == 0                        \* a job id with no row in generation_jobs
\* seed.py:41
JOB_STATUSES == {"pending", "running", "completed", "failed", "cancelled"}
NoTime == 0 - 1                   \* a DateTime column that IS NULL
Magnitudes == 1..MaxDebit          \* magnitudes of debits
ReadOps == {"token_ledger", "get_user_tokens"}

VARIABLES
    users,      \* users.status by user id
    wallets,    \* token_wallets: balance by user_id, for the users that have a row
    ledger,     \* token_transactions in insertion order
    audit,      \* audit_logs in insertion order
    jobs,       \* generation_jobs by id
    admin_user_overrides,   \* admin_user_overrides by user_id
    reference_images,       \* reference_images in insertion order
    generated_images,       \* generated_images in insertion order
    event_logs,             \* event_logs in insertion order
    staff_accounts,         \* staff_accounts.is_active by staff id
    staff_roles,            \* the role names staff_roles joins to each staff id
    now,        \* the clock read by utc_now()
    pc,         \* per session: the statement the handler is at
    req,        \* per session: the request it serves
    loc,        \* per session: the handler's local variables / ORM objects
    resp,       \* per session: the response it returned
    written,    \* history: the reading sessions during whose request another
                \* request committed a write
    snapshots,  \* history: per get_user_tokens request on its way, the
                \* committed states of wallets and ledger it has outlived
    served      \* history: the requests admitted so far

vars == <<users, wallets, ledger, audit, jobs, admin_user_overrides,
          reference_images, generated_images, event_logs, staff_accounts,
          staff_roles, now, pc, req, loc, resp, written, snapshots,
          served>>

\* the tables the token, user and job handlers leave alone
shared == <<admin_user_overrides, reference_images, generated_images, event_logs,
            staff_accounts, staff_roles>>
db == <<users, wallets, ledger, audit, jobs, shared>>

\* ------------------------------------------------------------------ helpers
Max(a, b) == IF a >= b THEN a ELSE b

RECURSIVE SumAmounts(_)
SumAmounts(txs) ==
    IF txs = <<>> THEN 0 ELSE Head(txs).amount + SumAmounts(Tail(txs))

TxOfUser(txs, uid) == SelectSeq(txs, LAMBDA t: t.user_id = uid)

\* func.sum(TokenTransaction.amount) filtered by user_id, or 0
sumByUser(txs, uid) == SumAmounts(TxOfUser(txs, uid))

TokenTransaction(id, uid, amount, type, reason, ref_type, created_at, admin) ==
    [id |-> id, user_id |-> uid, amount |-> amount, type |-> type,
     reason |-> reason, ref_type |-> ref_type, created_at |-> created_at,
     created_by_admin_id |-> admin]

AuditLog(id, actor_id, action, target_id, before_json, after_json, user_agent) ==
    [id |-> id, actor_id |-> actor_id, action |-> action, target_type |-> "user",
     target_id |-> target_id, before_json |-> before_json,
     after_json |-> after_json, user_agent |-> user_agent]

NoJson == [null |-> TRUE]

NoReq == [op |-> "none", user_id |-> NoUser, amount |-> 0, reason |-> "",
          actor |-> NoAdmin, job_id |-> NoJob, type |-> "", page |-> 1,
          limit |-> 1, staff_id |-> NoStaff, is_active |-> "null",
          role_names |-> NoRoleNames]
NoLoc == [balance |-> 0, created |-> FALSE, tx_id |-> 0, audit_id |-> 0,
         before |-> "", total |-> 0, total_issued |-> 0, total_consumed |-> 0]
NoResp == [status |-> 0, balance |-> 0, items |-> <<>>, total |-> 0,
           total_issued |-> 0, total_consumed |-> 0, outstanding_balance |-> 0,
           daily_trend |-> <<>>, total_users |-> 0, total_generations |-> 0]

Response(status) == [NoResp EXCEPT !.status = status]

\* ------------------------------------------------------------------ seed
\* a recomputation that writes the sum as it is
recompute_balance_unfloored(txs, uid) == sumByUser(txs, uid)

\* recompute of one wallet from the ledger
recompute_balance(txs, uid) == Max(0, sumByUser(txs, uid))

SeedTx(i, uid, amount) ==
    TokenTransaction(i, uid, amount,
                     IF amount > 0 THEN "credit_grant" ELSE "usage_debit",
                     "Seeded data", "seed", 0, NoAdmin)

\* seed.py:149-170  a seeded generation job
SeedJob(status) ==
    [status |-> status,
     error_message |-> IF status = "failed" THEN "OutOfMemoryError" ELSE "",
     completed_at |-> IF status \in {"completed", "failed", "cancelled"}
                      THEN 0 ELSE NoTime]

SeedLedgers(seeded) ==
    UNION {[1..n -> seeded \X SeedAmounts] : n \in 0..MaxSeedTx}

Init ==
    /\ users = [u \in UserIds |-> "active"]
    /\ \E seeded \in SUBSET UserIds :
         \E f \in SeedLedgers(seeded) :
            /\ ledger = [i \in DOMAIN f |-> SeedTx(i, f[i][1], f[i][2])]
            /\ wallets = [u \in seeded |-> recompute_balance(ledger, u)]
            /\ audit = IF seeded = {} THEN <<>>
                       ELSE <<AuditLog(1, admin_staff, "tokens.grant",
                                       CHOOSE u \in seeded : TRUE,
                                       NoJson, NoJson, "Seed")>>
    /\ jobs \in [JobIds -> {SeedJob(st) : st \in JOB_STATUSES}]
    /\ admin_user_overrides = <<>>
    /\ staff_accounts = [a \in {admin_staff} |-> TRUE]
    /\ staff_roles = [a \in {admin_staff} |-> {"admin", "owner"}]
    /\ reference_images = <<>>
    /\ generated_images = <<>>
    /\ event_logs = <<>>
    /\ now = 0
    /\ written = {}
    /\ snapshots = [s \in Sessions |-> {}]
    /\ served = 0
    /\ pc = [s \in Sessions |-> "idle"]
    /\ req = [s \in Sessions |-> NoReq]
    /\ loc = [s \in Sessions |-> NoLoc]
    /\ resp = [s \in Sessions |-> NoResp]

\* ------------------------------------------------------------------ sessions
Finish(s, r) ==
    /\ pc' = [pc EXCEPT ![s] = "done"]
    /\ resp' = [resp EXCEPT ![s] = r]

Goto(s, label) ==
    /\ pc' = [pc EXCEPT ![s] = label]
    /\ UNCHANGED resp

\* a writing request is admitted while the model's budget lasts
Admit ==
    /\ served < MaxRequests
    /\ served' = served + 1

\* a reading request is admitted while the model's budget lasts
AdmitRead ==
    /\ served < MaxRequests + MaxReads
    /\ served' = served + 1

\* a commit by session s (0: by no session) is a write during the request of
\* every other session that is serving a read
Commit(s) ==
    /\ written' = written \cup {t \in Sessions \ {s} : req[t].op \in ReadOps}
    /\ snapshots' = [t \in Sessions |->
                       IF t # s /\ pc[t] \in {"t_wallet", "t_count", "t_items"}
                       THEN snapshots[t] \cup {<<wallets, ledger>>}
                       ELSE snapshots[t]]

\* get_db: finally db.close(); the response has been sent
get_db(s) ==
    /\ pc[s] = "done"
    /\ pc' = [pc EXCEPT ![s] = "idle"]
    /\ req' = [req EXCEPT ![s] = NoReq]
    /\ loc' = [loc EXCEPT ![s] = NoLoc]
    /\ resp' = [resp EXCEPT ![s] = NoResp]
    /\ written' = written \ {s}
    /\ UNCHANGED snapshots
    /\ UNCHANGED <<db, now, served>>

\* utc_now() advances
Tick ==
    /\ now < MaxTime
    /\ now' = now + 1
    /\ UNCHANGED <<db, pc, req, loc, resp, written, snapshots, served>>

\* ------------------------------------------------------------------ grant
\* the check with `<` in place of `<=`
InvalidAmount_strict(amount) == amount < 0

\* tokens.py:118  if amount <= 0
InvalidAmount(amount) == amount <= 0

\* the check without the status test
UserNotFound_row_only(uid) == uid \notin DOMAIN users

\* tokens.py:120-121  if not user or user.status == "deleted"
UserNotFound(uid) == uid \notin DOMAIN users \/ users[uid] = "deleted"

\* the assignment `wallet.balance = amount`
incremented_overwriting(balance, amount) == amount

\* tokens.py:128  (wallet.balance or 0) + amount
incremented(balance, amount) == balance + amount

\* tokens.py:129-135  the transaction a grant adds
grant_tx(id, r, created_at) ==
    TokenTransaction(id, r.user_id, r.amount, "credit_grant", r.reason,
                     "", created_at, r.actor)

\* auth.py:66-71  the token's subject has no staff row
Unauthenticated(caller) == caller \notin DOMAIN staff_accounts

\* a check of the roles alone
Forbidden_roles_only(caller, allowed_roles) ==
    staff_roles[caller] \cap allowed_roles = {}

\* auth.py:72-76, 87-92  the staff row is inactive or holds no allowed role
Forbidden(caller, allowed_roles) ==
    \/ ~staff_accounts[caller]
    \/ staff_roles[caller] \cap allowed_roles = {}

\* tokens.py:201  require_role("admin", "owner", "billing")
GrantRoles == {"admin", "owner", "billing"}

\* POST /admin/users/{user_id}/tokens/grant arrives with the token of caller:
\* require_role reads the staff row and its roles, _grant_tokens checks the
\* amount and looks the user up
grant_request(s, caller, uid, amount) ==
    /\ pc[s] = "idle"
    /\ req' = [req EXCEPT ![s] = [NoReq EXCEPT !.op = "grant", !.user_id = uid,
                                  !.amount = amount, !.reason = Reason,
                                  !.actor = caller]]
    /\ IF Unauthenticated(caller) THEN Finish(s, Response(401)) /\ UNCHANGED served
       ELSE IF Forbidden(caller, GrantRoles)
       THEN Finish(s, Response(403)) /\ UNCHANGED served
       ELSE IF InvalidAmount(amount) THEN Finish(s, Response(400)) /\ UNCHANGED served
       ELSE IF UserNotFound(uid) THEN Finish(s, Response(404)) /\ UNCHANGED served
       ELSE Goto(s, "g_wallet") /\ Admit
    /\ UNCHANGED <<db, now, loc, written, snapshots>>

\* the grant request of the seeded admin
grant_validate(s, uid, amount) == grant_request(s, admin_staff, uid, amount)

\* SELECT of the user's wallet
grant_wallet_query(s) ==
    /\ pc[s] = "g_wallet"
    /\ IF req[s].user_id \in DOMAIN wallets
       THEN /\ loc' = [loc EXCEPT ![s].balance = wallets[req[s].user_id]]
            /\ Goto(s, "g_commit")
       ELSE /\ UNCHANGED loc
            /\ Goto(s, "g_flush")
    /\ UNCHANGED <<db, now, req, written, snapshots, served>>

\* a table whose user_id is no key: an INSERT waits for nothing
Inserting_without_key(uid) == {}

\* sessions holding an uncommitted INSERT of uid's wallet row, which the
\* primary key token_wallets.user_id makes a concurrent INSERT wait for
Inserting(uid) ==
    {t \in Sessions : pc[t] = "g_commit" /\ loc[t].created /\ req[t].user_id = uid}

\* db.add(wallet); db.flush(): the INSERT waits for a concurrent uncommitted
\* INSERT of the same primary key and fails once that one is committed
grant_wallet_flush(s) ==
    /\ pc[s] = "g_flush"
    /\ Inserting(req[s].user_id) = {}
    /\ IF req[s].user_id \in DOMAIN wallets
       THEN /\ Finish(s, Response(500))
            /\ UNCHANGED loc
       ELSE /\ loc' = [loc EXCEPT ![s].created = TRUE, ![s].balance = 0]
            /\ Goto(s, "g_commit")
    /\ UNCHANGED <<db, now, req, written, snapshots, served>>

\* the wallets table after the UPDATE (or INSERT) of uid's row
set_balance(uid, balance) ==
    [u \in DOMAIN wallets \cup {uid} |-> IF u = uid THEN balance ELSE wallets[u]]

\* an INSERT that displaces the rows before it
append_tx_displacing(txs, tx) == <<tx>>

\* an INSERT that skips a transaction equal, up to its id and time, to one
\* already recorded
append_tx_deduplicating(txs, tx) ==
    IF \E i \in 1..Len(txs) :
          [txs[i] EXCEPT !.id = tx.id, !.created_at = tx.created_at] = tx
    THEN txs
    ELSE Append(txs, tx)

\* INSERT of a transaction row
append_tx(txs, tx) == Append(txs, tx)

\* wallet.balance += amount; db.add(tx); db.commit()
grant_commit(s) ==
    /\ pc[s] = "g_commit"
    /\ LET r == req[s]
           balance == incremented(loc[s].balance, r.amount)
           id == Len(ledger) + 1
       IN /\ wallets' = set_balance(r.user_id, balance)
          /\ ledger' = append_tx(ledger, grant_tx(id, r, now))
          /\ loc' = [loc EXCEPT ![s].balance = balance, ![s].tx_id = id]
    /\ Goto(s, "audit")
    /\ Commit(s)
    /\ UNCHANGED <<shared, users, audit, jobs, now, req, served>>

\* grant_user_tokens after _grant_tokens returned: SELECT the wallet again
grant_user_tokens(s) ==
    /\ pc[s] = "g_response"
    /\ LET uid == req[s].user_id
       IN Finish(s, [Response(200) EXCEPT
                       !.balance = IF uid \in DOMAIN wallets THEN wallets[uid] ELSE 0])
    /\ UNCHANGED <<db, now, req, loc, written, snapshots, served>>

\* a recomputation that adds the sum to the stored balance
recompute_accumulating(uid) ==
    /\ uid \in DOMAIN wallets
    /\ wallets' = [wallets EXCEPT ![uid] = Max(0, @ + sumByUser(ledger, uid))]
    /\ Commit(0)
    /\ UNCHANGED <<shared, users, ledger, audit, jobs, now, pc, req, loc, resp, served>>

\* seed.py:136-146  recompute one wallet's balance from its transactions
recompute(uid) ==
    /\ uid \in DOMAIN wallets
    /\ wallets' = [wallets EXCEPT ![uid] = recompute_balance(ledger, uid)]
    /\ Commit(0)
    /\ UNCHANGED <<shared, users, ledger, audit, jobs, now, pc, req, loc, resp, served>>

\* ------------------------------------------------------------------ debit
\* a debit that lets the balance go below 0
debited_unfloored(balance, m) == balance - m

\* spec 4.3 debit(user_id, amount, type, ref_type, ref_id): the balance after a
\* debit of magnitude m, floored at 0
debited(balance, m) == Max(0, balance - m)

\* the transaction a debit appends: the amount is negative
debit_tx(id, uid, m, created_at) ==
    TokenTransaction(id, uid, 0 - m, "usage_debit", "", "job", created_at, NoAdmin)

\* a system-generated debit, one atomic unit (spec 5); the wallet is the one
\* getOrCreate(user_id) returns; no audit entry
debit(uid, m) ==
    /\ m > 0
    /\ ~UserNotFound(uid)
    /\ Admit
    /\ LET balance == IF uid \in DOMAIN wallets THEN wallets[uid] ELSE 0
       IN wallets' = set_balance(uid, debited(balance, m))
    /\ ledger' = append_tx(ledger, debit_tx(Len(ledger) + 1, uid, m, now))
    /\ Commit(0)
    /\ UNCHANGED <<shared, users, audit, jobs, now, pc, req, loc, resp>>

\* ------------------------------------------------------------------ users
\* users.py:114  if user.status == "suspended"
AlreadySuspended(uid) == users[uid] = "suspended"

\* users.py:144  if user.status != "suspended"
NotSuspended(uid) == users[uid] # "suspended"

UserRequest(op, uid) ==
    [NoReq EXCEPT !.op = op, !.user_id = uid, !.reason = Reason,
                  !.actor = admin_staff]

\* the SELECT and the checks of a user operation; before = {"status": user.status}
user_lookup(s, op, uid, rejected) ==
    /\ pc[s] = "idle"
    /\ req' = [req EXCEPT ![s] = UserRequest(op, uid)]
    /\ IF UserNotFound(uid)
       THEN Finish(s, Response(404)) /\ UNCHANGED <<loc, served>>
       ELSE IF rejected
       THEN Finish(s, Response(400)) /\ UNCHANGED <<loc, served>>
       ELSE /\ Goto(s, "u_commit")
            /\ loc' = [loc EXCEPT ![s].before = users[uid]]
            /\ Admit
    /\ UNCHANGED <<db, now, written, snapshots>>

suspend_user(s, uid) ==
    user_lookup(s, "suspend", uid, uid \in DOMAIN users /\ AlreadySuspended(uid))

unsuspend_user(s, uid) ==
    user_lookup(s, "unsuspend", uid, uid \in DOMAIN users /\ NotSuspended(uid))

delete_user(s, uid) ==
    user_lookup(s, "delete", uid, FALSE)

\* users.py:163-174
reset_mfa(s, uid) ==
    user_lookup(s, "reset_mfa", uid, FALSE)

\* users.py:190-205
revoke_sessions(s, uid) ==
    user_lookup(s, "revoke_sessions", uid, FALSE)

\* the status each operation assigns (users.py:117, 147, 258)
new_status(op) ==
    CASE op = "suspend" -> "suspended"
      [] op = "unsuspend" -> "active"
      [] op = "delete" -> "deleted"

StatusOps == {"suspend", "unsuspend", "delete"}

\* an assignment that is not part of the commit
users_after_unwritten(op, uid) == users

\* the users table after the handler's assignment: reset_mfa and
\* revoke_sessions write mfa_enabled and user_sessions.revoked_at, which are
\* not part of the state, and leave the status as it is
users_after(op, uid) ==
    IF op \in StatusOps THEN [users EXCEPT ![uid] = new_status(op)] ELSE users

\* a commit that also drops the user's wallet row when the user is deleted
user_commit_cascading(s) ==
    /\ pc[s] = "u_commit"
    /\ users' = users_after(req[s].op, req[s].user_id)
    /\ wallets' = IF req[s].op = "delete"
                  THEN [u \in DOMAIN wallets \ {req[s].user_id} |-> wallets[u]]
                  ELSE wallets
    /\ pc' = [pc EXCEPT ![s] = "audit"]
    /\ Commit(s)
    /\ UNCHANGED <<shared, ledger, audit, jobs, now, req, loc, resp, served>>

\* user.status = ...; db.commit()
user_commit(s) ==
    /\ pc[s] = "u_commit"
    /\ users' = users_after(req[s].op, req[s].user_id)
    /\ Goto(s, "audit")
    /\ Commit(s)
    /\ UNCHANGED <<shared, wallets, ledger, audit, jobs, now, req, loc, served>>

\* ------------------------------------------------------------------ audit
\* the arguments each handler passes to create_audit_log
audit_entry(s, id) ==
    LET r == req[s] IN
    CASE r.op = "grant" ->
           AuditLog(id, r.actor, "tokens.grant", r.user_id, NoJson,
                    [amount |-> r.amount, reason |-> r.reason], "ua")
      [] r.op = "suspend" ->
           AuditLog(id, r.actor, "user.suspend", r.user_id,
                    [status |-> loc[s].before],
                    [status |-> "suspended", reason |-> r.reason], "ua")
      [] r.op = "unsuspend" ->
           AuditLog(id, r.actor, "user.unsuspend", r.user_id,
                    [status |-> loc[s].before],
                    [status |-> "active", reason |-> r.reason], "ua")
      [] r.op = "delete" ->
           AuditLog(id, r.actor, "user.delete", r.user_id,
                    [status |-> loc[s].before], [status |-> "deleted"], "ua")
      [] r.op = "reset_mfa" ->
           AuditLog(id, r.actor, "user.reset_mfa", r.user_id,
                    NoJson, [mfa_enabled |-> FALSE], "ua")
      [] r.op = "revoke_sessions" ->
           AuditLog(id, r.actor, "user.revoke_sessions", r.user_id,
                    NoJson, [revoked_at |-> now], "ua")

\* create_audit_log: db.add(entry); db.commit(); db.refresh(entry)
create_audit_log(s) ==
    /\ pc[s] = "audit"
    /\ LET id == Len(audit) + 1
       IN /\ audit' = Append(audit, audit_entry(s, id))
          /\ loc' = [loc EXCEPT ![s].audit_id = id]
    /\ IF req[s].op = "grant" THEN Goto(s, "g_response")
       ELSE Finish(s, Response(200))
    /\ Commit(s)
    /\ UNCHANGED <<shared, users, wallets, ledger, jobs, now, req, served>>

\* the commit of the audit entry raises (a storage error): the request fails
create_audit_log_fails(s) ==
    /\ pc[s] = "audit"
    /\ Finish(s, Response(500))
    /\ UNCHANGED <<db, now, req, loc, written, snapshots, served>>

\* ------------------------------------------------------------------ jobs
job_lookup(s, op, jid, rejected) ==
    /\ pc[s] = "idle"
    /\ req' = [req EXCEPT ![s] = [NoReq EXCEPT !.op = op, !.job_id = jid]]
    /\ IF jid \notin DOMAIN jobs THEN Finish(s, Response(404))
       ELSE IF rejected THEN Finish(s, Response(400))
       ELSE Goto(s, "j_commit")
    /\ UNCHANGED <<db, now, loc, written, snapshots, served>>

\* system.py:126-130
retry_job(s, jid) ==
    job_lookup(s, "retry_job", jid, jid \in DOMAIN jobs /\ jobs[jid].status # "failed")

\* system.py:144-151
cancel_job(s, jid) ==
    job_lookup(s, "cancel_job", jid,
               jid \in DOMAIN jobs
                 /\ jobs[jid].status \notin {"pending", "running", "processing"})

\* system.py:131-135 and 152-155: the assignments, db.commit() and the response
job_commit(s) ==
    /\ pc[s] = "j_commit"
    /\ jobs' = [jobs EXCEPT ![req[s].job_id] =
                  IF req[s].op = "retry_job"
                  THEN [@ EXCEPT !.status = "pending", !.error_message = "",
                                 !.completed_at = NoTime]
                  ELSE [@ EXCEPT !.status = "cancelled", !.completed_at = now]]
    /\ Finish(s, Response(200))
    /\ Commit(s)
    /\ UNCHANGED <<shared, users, wallets, ledger, audit, now, req, loc, served>>

\* ------------------------------------------------------------------ reads
\* the rows a ledger query matches (tokens.py:90-94, 178-180)
Matching(txs, uid, type) ==
    SelectSeq(txs, LAMBDA t: /\ (uid = NoUser \/ t.user_id = uid)
                             /\ (type = "" \/ t.type = type))

Bijections(n) == {p \in [1..n -> 1..n] : \A i, j \in 1..n : p[i] = p[j] => i = j}

\* ORDER BY created_at DESC: every order of the rows that is descending in
\* created_at; SQL leaves the order of rows with equal created_at open
order_by_created_at_desc(rows) ==
    {o \in {[i \in 1..Len(rows) |-> rows[p[i]]] : p \in Bijections(Len(rows))} :
        \A i \in 1..(Len(o) - 1) : o[i].created_at >= o[i + 1].created_at}

\* .offset((page - 1) * limit).limit(limit)
offset_limit(rows, page, limit) ==
    SubSeq(rows, (page - 1) * limit + 1,
           IF page * limit <= Len(rows) THEN page * limit ELSE Len(rows))

ReadRequest(op, uid, type, page, limit) ==
    [NoReq EXCEPT !.op = op, !.user_id = uid, !.type = type, !.page = page,
                  !.limit = limit]

\* GET /admin/tokens/ledger: the filters and q.count()
token_ledger(s, uid, type, page, limit) ==
    /\ pc[s] = "idle"
    /\ req' = [req EXCEPT ![s] = ReadRequest("token_ledger", uid, type, page, limit)]
    /\ loc' = [loc EXCEPT ![s].total = Len(Matching(ledger, uid, type))]
    /\ Goto(s, "l_items")
    /\ AdmitRead
    /\ UNCHANGED <<db, now, written, snapshots>>

\* the page query and the response
token_ledger_items(s) ==
    /\ pc[s] = "l_items"
    /\ \E o \in order_by_created_at_desc(Matching(ledger, req[s].user_id, req[s].type)) :
          Finish(s, [Response(200) EXCEPT
                       !.items = offset_limit(o, req[s].page, req[s].limit),
                       !.total = loc[s].total])
    /\ UNCHANGED <<db, now, req, loc, written, snapshots, served>>

\* GET /admin/users/{user_id}/tokens: the user lookup
get_user_tokens(s, uid, page, limit) ==
    /\ pc[s] = "idle"
    /\ req' = [req EXCEPT ![s] = ReadRequest("get_user_tokens", uid, "", page, limit)]
    /\ IF UserNotFound(uid) THEN Finish(s, Response(404))
       ELSE Goto(s, "t_wallet")
    /\ AdmitRead
    /\ UNCHANGED <<db, now, loc, written, snapshots>>

\* SELECT of the wallet; balance = wallet.balance if wallet else 0
get_user_tokens_wallet(s) ==
    /\ pc[s] = "t_wallet"
    /\ LET uid == req[s].user_id
       IN loc' = [loc EXCEPT ![s].balance =
                    IF uid \in DOMAIN wallets THEN wallets[uid] ELSE 0]
    /\ Goto(s, "t_count")
    /\ UNCHANGED <<db, now, req, written, snapshots, served>>

\* tx_query.count()
get_user_tokens_count(s) ==
    /\ pc[s] = "t_count"
    /\ loc' = [loc EXCEPT ![s].total = Len(Matching(ledger, req[s].user_id, ""))]
    /\ Goto(s, "t_items")
    /\ UNCHANGED <<db, now, req, written, snapshots, served>>

\* the page query and the response
get_user_tokens_items(s) ==
    /\ pc[s] = "t_items"
    /\ \E o \in order_by_created_at_desc(Matching(ledger, req[s].user_id, "")) :
          Finish(s, [Response(200) EXCEPT
                       !.balance = loc[s].balance,
                       !.items = offset_limit(o, req[s].page, req[s].limit),
                       !.total = loc[s].total])
    /\ snapshots' = [snapshots EXCEPT ![s] = {}]
    /\ UNCHANGED <<db, now, req, loc, written, served>>

\* func.coalesce(func.sum(TokenTransaction.amount), 0) over the positive amounts
sum_issued(txs) == SumAmounts(SelectSeq(txs, LAMBDA t: t.amount > 0))

\* the sum over the negative amounts without abs(...)
sum_consumed_signed(txs) == SumAmounts(SelectSeq(txs, LAMBDA t: t.amount < 0))

\* abs(...) of the same sum over the negative amounts
sum_consumed(txs) ==
    LET total == SumAmounts(SelectSeq(txs, LAMBDA t: t.amount < 0))
    IN IF total < 0 THEN 0 - total ELSE total

RECURSIVE sum_balances(_, _)
sum_balances(w, ids) ==
    IF ids = {} THEN 0
    ELSE LET u == CHOOSE x \in ids : TRUE
         IN w[u] + sum_balances(w, ids \ {u})

\* datetime.date(): the UTC day a clock value lies in
date(t) == t \div DayLength

\* datetime(d.year, d.month, d.day, tzinfo=utc): the first clock value of day d
start_of(d) == d * DayLength

\* a filter whose upper bound is inclusive
created_between_inclusive(txs, start, end) ==
    SelectSeq(txs, LAMBDA t: t.created_at >= start /\ t.created_at <= end)

\* tokens.py:52-53, 62-63  created_at >= start, created_at < end
created_between(txs, start, end) ==
    SelectSeq(txs, LAMBDA t: t.created_at >= start /\ t.created_at < end)

\* tokens.py:44-71  for i in range(7): the day 6 - i days before today
daily_trend(txs, today) ==
    [i \in 1..7 |->
        LET d == date(today - (7 - i) * DayLength)
            start == start_of(d)
            end == start + DayLength
        IN [date |-> d,
            issued |-> sum_issued(created_between(txs, start, end)),
            consumed |-> sum_consumed(created_between(txs, start, end))]]

\* GET /admin/tokens/dashboard: the total_issued query
token_dashboard(s) ==
    /\ pc[s] = "idle"
    /\ req' = [req EXCEPT ![s] = [NoReq EXCEPT !.op = "token_dashboard"]]
    /\ loc' = [loc EXCEPT ![s].total_issued = sum_issued(ledger)]
    /\ Goto(s, "d_consumed")
    /\ AdmitRead
    /\ UNCHANGED <<db, now, written, snapshots>>

\* the total_consumed query
token_dashboard_consumed(s) ==
    /\ pc[s] = "d_consumed"
    /\ loc' = [loc EXCEPT ![s].total_consumed = sum_consumed(ledger)]
    /\ Goto(s, "d_outstanding")
    /\ UNCHANGED <<db, now, req, written, snapshots, served>>

\* the outstanding query, the trend queries and the response
token_dashboard_outstanding(s) ==
    /\ pc[s] = "d_outstanding"
    /\ Finish(s, [Response(200) EXCEPT
                    !.total_issued = loc[s].total_issued,
                    !.total_consumed = loc[s].total_consumed,
                    !.outstanding_balance = sum_balances(wallets, DOMAIN wallets),
                    !.daily_trend = daily_trend(ledger, now)])
    /\ UNCHANGED <<db, now, req, loc, written, snapshots, served>>

\* ------------------------------------------------------------------ assets
\* the rows of one image table that pass the user_id filter (content.py:39-40,
\* 48-49)
MatchingImages(rows, uid) ==
    SelectSeq(rows, LAMBDA r: uid = NoUser \/ r.user_id = uid)

\* ImageAssetOut of a row
ImageAssetOut(r, asset_type) ==
    [id |-> r.id, user_id |-> r.user_id, asset_type |-> asset_type,
     created_at |-> r.created_at]

\* one table's page: order_by(created_at.desc()).offset(offset).limit(limit)
image_page(rows, asset_type, page, limit) ==
    {[i \in DOMAIN offset_limit(o, page, limit) |->
         ImageAssetOut(offset_limit(o, page, limit)[i], asset_type)] :
       o \in order_by_created_at_desc(rows)}

\* combined.sort(key=created_at, reverse=True): descending, items of equal
\* created_at in the order they have in the list
sort_reverse(items) ==
    CHOOSE o \in {[i \in 1..Len(items) |-> items[p[i]]] : p \in Bijections(Len(items))} :
       /\ \A i \in 1..(Len(o) - 1) : o[i].created_at >= o[i + 1].created_at
       /\ \E p \in Bijections(Len(items)) :
             /\ o = [i \in 1..Len(items) |-> items[p[i]]]
             /\ \A i, j \in 1..Len(items) :
                   (i < j /\ items[p[i]].created_at = items[p[j]].created_at)
                      => p[i] < p[j]

\* combined[:limit]
first_n(items, n) == SubSeq(items, 1, IF n <= Len(items) THEN n ELSE Len(items))

\* GET /admin/assets: the filters and the two counts
list_assets(s, uid, asset_type, page, limit) ==
    /\ pc[s] = "idle"
    /\ req' = [req EXCEPT ![s] = ReadRequest("list_assets", uid, asset_type, page, limit)]
    /\ LET include_ref == asset_type \in {"", "reference"}
           include_gen == asset_type \in {"", "generated"}
       IN loc' = [loc EXCEPT ![s].total =
                    (IF include_ref
                     THEN Len(MatchingImages(reference_images, uid)) ELSE 0)
                    + (IF include_gen
                       THEN Len(MatchingImages(generated_images, uid)) ELSE 0)]
    /\ Goto(s, "a_items")
    /\ AdmitRead
    /\ UNCHANGED <<db, now, written, snapshots>>

\* the two page queries, the merge, the sort and the response
list_assets_items(s) ==
    /\ pc[s] = "a_items"
    /\ LET r == req[s]
           include_ref == r.type \in {"", "reference"}
           include_gen == r.type \in {"", "generated"}
       IN \E refs \in (IF include_ref
                        THEN image_page(MatchingImages(reference_images, r.user_id),
                                        "reference", r.page, r.limit)
                        ELSE {<<>>}),
             gens \in (IF include_gen
                        THEN image_page(MatchingImages(generated_images, r.user_id),
                                        "generated", r.page, r.limit)
                        ELSE {<<>>}) :
             Finish(s, [Response(200) EXCEPT
                          !.items = first_n(sort_reverse(refs \o gens), r.limit),
                          !.total = loc[s].total])
    /\ UNCHANGED <<db, now, req, loc, written, snapshots, served>>

\* ------------------------------------------------------------------ staff
\* roles.py:79, 106  require_role("admin", "owner")
StaffRoles == {"admin", "owner"}

StaffRequest(op, caller, staff_id, is_active, role_names) ==
    [NoReq EXCEPT !.op = op, !.actor = caller, !.staff_id = staff_id,
                  !.is_active = is_active, !.role_names = role_names]

\* the dependency and the checks of a staff operation: require_role, the
\* handler's own check and the SELECT of the staff row
staff_lookup(s, r, rejected) ==
    /\ pc[s] = "idle"
    /\ req' = [req EXCEPT ![s] = r]
    /\ IF Unauthenticated(r.actor) THEN Finish(s, Response(401))
       ELSE IF Forbidden(r.actor, StaffRoles) THEN Finish(s, Response(403))
       ELSE IF rejected THEN Finish(s, Response(400))
       ELSE IF r.staff_id \notin DOMAIN staff_accounts THEN Finish(s, Response(404))
       ELSE Goto(s, "s_commit")
    /\ UNCHANGED <<db, now, loc, written, snapshots, served>>

\* DELETE /admin/staff/{staff_id}: if current.id == staff_id: 400
deactivate_staff(s, caller, staff_id) ==
    staff_lookup(s, StaffRequest("deactivate_staff", caller, staff_id, "null",
                                 NoRoleNames),
                 caller = staff_id)

\* PUT /admin/staff/{staff_id}: no check of its own
update_staff(s, caller, staff_id, is_active, role_names) ==
    staff_lookup(s, StaffRequest("update_staff", caller, staff_id, is_active,
                                 role_names),
                 FALSE)

\* the assignments and db.commit(): deactivate_staff sets is_active = False;
\* update_staff sets is_active when the body carries it and replaces the
\* staff_roles rows when the body carries role_names
staff_commit(s) ==
    /\ pc[s] = "s_commit"
    /\ LET r == req[s]
       IN /\ staff_accounts' =
                [staff_accounts EXCEPT ![r.staff_id] =
                    IF r.op = "deactivate_staff" THEN FALSE
                    ELSE IF r.is_active = "null" THEN @
                    ELSE r.is_active = "true"]
          /\ staff_roles' =
                [staff_roles EXCEPT ![r.staff_id] =
                    IF r.op = "update_staff" /\ r.role_names # NoRoleNames
                    THEN r.role_names ELSE @]
    /\ Finish(s, Response(200))
    /\ Commit(s)
    /\ UNCHANGED <<users, wallets, ledger, audit, jobs, admin_user_overrides,
                   reference_images, generated_images, event_logs, now, req, loc,
                   served>>

\* ------------------------------------------------------------------ events
\* activity.py:60-65  the event_logs rows the filters keep
MatchingEvents(uid, type_filter) ==
    SelectSeq(event_logs, LAMBDA e: /\ (type_filter = "" \/ e.type = type_filter)
                                    /\ (uid = NoUser \/ e.user_id = uid))

\* EventLogOut.model_validate(e)
EventLogOut(e) ==
    [id |-> <<"event", e.id>>, type |-> e.type, user_id |-> e.user_id,
     created_at |-> e.created_at]

\* generation_jobs as rows in id order
JobRows == [j \in JobIds |-> [id |-> j] @@ jobs[j]]

\* activity.py:86-96  the jobs the fallback's filters keep
MatchingJobs(uid, type_filter) ==
    SelectSeq(JobRows,
              LAMBDA j: /\ (uid = NoUser \/ j.user_id = uid)
                        /\ (type_filter = "generation_start"
                              => j.status \in {"pending", "processing", "running"})
                        /\ (type_filter = "generation_complete"
                              => j.status \in {"completed", "success"}))

\* activity.py:120-137  the event synthesized from a job
synthesized(j) ==
    [id |-> <<"gen-job", j.id>>,
     type |-> IF j.status \in {"completed", "success"}
              THEN "generation_complete" ELSE "generation_start",
     user_id |-> j.user_id, created_at |-> j.created_at]

\* GET /admin/events: the filters and q.count()
list_events(s, uid, type_filter, page, limit) ==
    /\ pc[s] = "idle"
    /\ req' = [req EXCEPT ![s] = ReadRequest("list_events", uid, type_filter, page, limit)]
    /\ loc' = [loc EXCEPT ![s].total = Len(MatchingEvents(uid, type_filter))]
    /\ Goto(s, "e_total")
    /\ AdmitRead
    /\ UNCHANGED <<db, now, written, snapshots>>

\* if total > 0: the page of event_logs and the response
list_events_items(s) ==
    /\ pc[s] = "e_total"
    /\ loc[s].total > 0
    /\ \E o \in order_by_created_at_desc(MatchingEvents(req[s].user_id, req[s].type)) :
          LET items == offset_limit(o, req[s].page, req[s].limit)
          IN Finish(s, [Response(200) EXCEPT
                          !.items = [i \in DOMAIN items |-> EventLogOut(items[i])],
                          !.total = loc[s].total])
    /\ UNCHANGED <<db, now, req, loc, written, snapshots, served>>

\* otherwise the fallback: an unknown type filter is answered with nothing,
\* any other with jobs_q.count()
list_events_fallback(s) ==
    /\ pc[s] = "e_total"
    /\ loc[s].total = 0
    /\ IF req[s].type \notin {"", "generation_start", "generation_complete"}
       THEN Finish(s, Response(200)) /\ UNCHANGED loc
       ELSE /\ loc' = [loc EXCEPT ![s].total =
                         Len(MatchingJobs(req[s].user_id, req[s].type))]
            /\ Goto(s, "e_jobs")
    /\ UNCHANGED <<db, now, req, written, snapshots, served>>

\* the page of jobs, the synthesized events and the response
list_events_synthesized(s) ==
    /\ pc[s] = "e_jobs"
    /\ \E o \in order_by_created_at_desc(MatchingJobs(req[s].user_id, req[s].type)) :
          LET page == offset_limit(o, req[s].page, req[s].limit)
          IN Finish(s, [Response(200) EXCEPT
                          !.items = [i \in DOMAIN page |-> synthesized(page[i])],
                          !.total = loc[s].total])
    /\ UNCHANGED <<db, now, req, loc, written, snapshots, served>>

\* GET /admin/dashboard/kpis: the counts and the total_issued query
get_kpis(s) ==
    /\ pc[s] = "idle"
    /\ req' = [req EXCEPT ![s] = [NoReq EXCEPT !.op = "get_kpis"]]
    /\ loc' = [loc EXCEPT ![s].total_issued = sum_issued(ledger)]
    /\ Goto(s, "k_consumed")
    /\ AdmitRead
    /\ UNCHANGED <<db, now, written, snapshots>>

\* the total_consumed query, the job aggregates and the response
get_kpis_consumed(s) ==
    /\ pc[s] = "k_consumed"
    /\ Finish(s, [Response(200) EXCEPT
                    !.total_users = Cardinality(DOMAIN users),
                    !.total_generations = Cardinality(DOMAIN jobs),
                    !.total_issued = loc[s].total_issued,
                    !.total_consumed = sum_consumed(ledger)])
    /\ UNCHANGED <<db, now, req, loc, written, snapshots, served>>

\* ------------------------------------------------------------------ specifications
\* the requests that arrive
GrantRequests ==
    \E s \in Sessions, uid \in ReqUserIds, amount \in Amounts :
       grant_validate(s, uid, amount)

DeleteRequests ==
    \E s \in Sessions, uid \in ReqUserIds : delete_user(s, uid)

SuspendRequests ==
    \/ \E s \in Sessions, uid \in ReqUserIds : suspend_user(s, uid)
    \/ \E s \in Sessions, uid \in ReqUserIds : unsuspend_user(s, uid)

AccountRequests ==
    \/ \E s \in Sessions, uid \in ReqUserIds : reset_mfa(s, uid)
    \/ \E s \in Sessions, uid \in ReqUserIds : revoke_sessions(s, uid)

JobRequests ==
    \/ \E s \in Sessions, jid \in {NoJob} \cup JobIds : retry_job(s, jid)
    \/ \E s \in Sessions, jid \in {NoJob} \cup JobIds : cancel_job(s, jid)

LedgerRequests ==
    \/ \E s \in Sessions, uid \in ReqUserIds, type \in {"", "credit_grant"},
          page \in 1..MaxPage, limit \in 1..MaxLimit :
          token_ledger(s, uid, type, page, limit)
    \/ \E s \in Sessions, uid \in ReqUserIds, page \in 1..MaxPage,
          limit \in 1..MaxLimit : get_user_tokens(s, uid, page, limit)

UserTokensRequests ==
    \E s \in Sessions, uid \in ReqUserIds, page \in 1..MaxPage, limit \in 1..MaxLimit :
       get_user_tokens(s, uid, page, limit)

ReadRequests ==
    \/ LedgerRequests
    \/ \E s \in Sessions : token_dashboard(s)

\* the statements the handlers go on with
GrantSteps ==
    \/ \E s \in Sessions : grant_wallet_query(s)
    \/ \E s \in Sessions : grant_wallet_flush(s)
    \/ \E s \in Sessions : grant_commit(s)
    \/ \E s \in Sessions : grant_user_tokens(s)

AuditSteps ==
    \/ \E s \in Sessions : create_audit_log(s)
    \/ \E s \in Sessions : create_audit_log_fails(s)

LedgerSteps ==
    \/ \E s \in Sessions : token_ledger_items(s)
    \/ \E s \in Sessions : get_user_tokens_wallet(s)
    \/ \E s \in Sessions : get_user_tokens_count(s)
    \/ \E s \in Sessions : get_user_tokens_items(s)

ReadSteps ==
    \/ LedgerSteps
    \/ \E s \in Sessions : token_dashboard_consumed(s)
    \/ \E s \in Sessions : token_dashboard_outstanding(s)

Requests ==
    \/ GrantRequests
    \/ DeleteRequests
    \/ SuspendRequests
    \/ JobRequests
    \/ ReadRequests

Steps ==
    \/ GrantSteps
    \/ AuditSteps
    \/ ReadSteps
    \/ \E s \in Sessions : user_commit(s)
    \/ \E s \in Sessions : job_commit(s)
    \/ \E s \in Sessions : get_db(s)
    \/ \E uid \in UserIds : recompute(uid)
    \/ Tick

Debits == \E uid \in UserIds, m \in Magnitudes : debit(uid, m)

AssetRequests ==
    \E s \in Sessions, uid \in ReqUserIds, asset_type \in {"", "reference", "generated"},
       page \in 1..MaxPage, limit \in 1..MaxLimit :
       list_assets(s, uid, asset_type, page, limit)

AssetSteps ==
    \/ AssetRequests
    \/ \E s \in Sessions : list_assets_items(s)

EventTypes == {"", "generation_start", "generation_complete", "login"}

EventRequests ==
    \E s \in Sessions, uid \in ReqUserIds, type_filter \in EventTypes,
       page \in 1..MaxPage, limit \in 1..MaxLimit :
       list_events(s, uid, type_filter, page, limit)

EventSteps ==
    \/ EventRequests
    \/ \E s \in Sessions : list_events_items(s)
    \/ \E s \in Sessions : list_events_fallback(s)
    \/ \E s \in Sessions : list_events_synthesized(s)

\* the bodies of update_staff the model sends
RoleNameBodies == {NoRoleNames, {}}

StaffRequests ==
    \/ \E s \in Sessions, caller \in StaffIds, staff_id \in StaffIds :
          deactivate_staff(s, caller, staff_id)
    \/ \E s \in Sessions, caller \in StaffIds, staff_id \in StaffIds,
          is_active \in {"null", "true", "false"}, role_names \in RoleNameBodies :
          update_staff(s, caller, staff_id, is_active, role_names)

StaffSteps ==
    \/ StaffRequests
    \/ \E s \in Sessions : staff_commit(s)

\* grant requests with the token of any staff member
StaffGrantRequests ==
    \E s \in Sessions, caller \in {NoStaff} \cup StaffIds :
       grant_request(s, caller, 1, 1)

KpiSteps ==
    \/ \E s \in Sessions : get_kpis(s)
    \/ \E s \in Sessions : get_kpis_consumed(s)

Next ==
    \/ Requests
    \/ AccountRequests
    \/ Debits
    \/ KpiSteps
    \/ AssetSteps
    \/ EventSteps
    \/ StaffSteps
    \/ StaffGrantRequests
    \/ Steps

\* every operation, requests interleaved statement by statement
Spec == Init /\ [][Next]_vars

\* no request is being served
Quiet == \A s \in Sessions : pc[s] = "idle"

\* the token operations, the user operations and the job operations, one
\* request at a time, the clock standing still
InitTokens == Init /\ \A j \in JobIds : jobs[j].status = "failed"

SeqSteps ==
    \/ GrantSteps
    \/ AuditSteps
    \/ ReadSteps
    \/ \E s \in Sessions : user_commit(s)
    \/ \E s \in Sessions : job_commit(s)
    \/ \E s \in Sessions : get_db(s)

\* the reconciliation script, run while no request is being served
Reconcile == Quiet /\ \E uid \in UserIds : recompute(uid)

SpecSeq == InitTokens /\ [][(Quiet /\ Requests) \/ Reconcile \/ SeqSteps]_vars

\* the token operations (grants, user deletion, recomputation), interleaved
TokenSteps ==
    \/ GrantSteps
    \/ AuditSteps
    \/ \E s \in Sessions : user_commit(s)
    \/ \E s \in Sessions : get_db(s)
    \/ \E uid \in UserIds : recompute(uid)

SpecTokens == InitTokens /\ [][GrantRequests \/ DeleteRequests \/ TokenSteps]_vars

\* the token operations, one request at a time
TokenSeqSteps ==
    \/ GrantSteps
    \/ AuditSteps
    \/ \E s \in Sessions : user_commit(s)
    \/ \E s \in Sessions : get_db(s)

SpecTokensSeq ==
    InitTokens /\ [][\/ Quiet /\ (GrantRequests \/ DeleteRequests)
                     \/ Reconcile
                     \/ TokenSeqSteps]_vars

\* grants, recomputation and every user operation, interleaved, every audit
\* write succeeding
SpecUsers ==
    InitTokens /\ [][\/ GrantRequests
                     \/ DeleteRequests
                     \/ SuspendRequests
                     \/ AccountRequests
                     \/ GrantSteps
                     \/ \E s \in Sessions : user_commit(s)
                     \/ \E s \in Sessions : create_audit_log(s)
                     \/ \E s \in Sessions : get_db(s)
                     \/ \E uid \in UserIds : recompute(uid)]_vars

\* grants alone, interleaved, every audit write succeeding
SpecGrants ==
    InitTokens /\ [][\/ GrantRequests
                     \/ GrantSteps
                     \/ \E s \in Sessions : create_audit_log(s)
                     \/ \E s \in Sessions : get_db(s)]_vars

\* grants and recomputation, interleaved, every audit write succeeding
SpecReconcile ==
    InitTokens /\ [][\/ GrantRequests
                     \/ GrantSteps
                     \/ \E s \in Sessions : create_audit_log(s)
                     \/ \E s \in Sessions : get_db(s)
                     \/ \E uid \in UserIds : recompute(uid)]_vars

\* no request is between its first statement and its response
Calm == \A s \in Sessions : pc[s] \in {"idle", "done"}

\* the database before any transaction is recorded
InitEmpty == InitTokens /\ ledger = <<>> /\ wallets = <<>>

\* grants alone, one request at a time, every audit write succeeding
SpecGrantsSeq ==
    InitTokens /\ [][\/ Quiet /\ GrantRequests
                     \/ GrantSteps
                     \/ \E s \in Sessions : create_audit_log(s)
                     \/ \E s \in Sessions : get_db(s)]_vars

\* grants, debits and recomputation, interleaved, every audit write succeeding
SpecLedger ==
    InitTokens /\ [][\/ GrantRequests
                     \/ GrantSteps
                     \/ \E s \in Sessions : create_audit_log(s)
                     \/ \E s \in Sessions : get_db(s)
                     \/ Debits
                     \/ \E uid \in UserIds : recompute(uid)]_vars

\* a database holding any ledger of up to MaxLedger transactions, every
\* balance reconciled
InitLedgers ==
    /\ users = [u \in UserIds |-> "active"]
    /\ \E n \in 0..MaxLedger : \E f \in [1..n -> UserIds \X LedgerAmounts] :
          ledger = [i \in 1..n |-> SeedTx(i, f[i][1], f[i][2])]
    /\ wallets = [u \in UserIds |-> recompute_balance(ledger, u)]
    /\ audit = <<>>
    /\ jobs = [j \in JobIds |-> SeedJob("failed")]
    /\ admin_user_overrides = <<>>
    /\ staff_accounts = [a \in {admin_staff} |-> TRUE]
    /\ staff_roles = [a \in {admin_staff} |-> {"admin", "owner"}]
    /\ reference_images = <<>>
    /\ generated_images = <<>>
    /\ event_logs = <<>>
    /\ now = 0
    /\ written = {}
    /\ snapshots = [s \in Sessions |-> {}]
    /\ served = 0
    /\ pc = [s \in Sessions |-> "idle"]
    /\ req = [s \in Sessions |-> NoReq]
    /\ loc = [s \in Sessions |-> NoLoc]
    /\ resp = [s \in Sessions |-> NoResp]

\* the two dashboards over these ledgers, no writer running
SpecDashboard ==
    InitLedgers /\ [][\/ \E s \in Sessions : token_dashboard(s)
                      \/ \E s \in Sessions : token_dashboard_consumed(s)
                      \/ \E s \in Sessions : token_dashboard_outstanding(s)
                      \/ KpiSteps
                      \/ \E s \in Sessions : get_db(s)]_vars

\* the clock values of the eight days up to today, the day before the trend's
\* window included
TrendTimes == 0..(8 * DayLength - 1)

\* a database holding any ledger of up to MaxTrendTx transactions created on
\* those days, read at a time of the last day
InitTrend ==
    /\ users = [u \in UserIds |-> "active"]
    /\ now \in (7 * DayLength)..(8 * DayLength - 1)
    /\ \E n \in 0..MaxTrendTx :
          \E f \in [1..n -> {t \in TrendTimes : t <= now} \X SeedAmounts] :
             /\ ledger = [i \in 1..n |->
                            [SeedTx(i, 1, f[i][2]) EXCEPT !.created_at = f[i][1]]]
             /\ \A i \in 1..(n - 1) : f[i][1] <= f[i + 1][1]
    /\ wallets = [u \in UserIds |-> recompute_balance(ledger, u)]
    /\ audit = <<>>
    /\ jobs = [j \in JobIds |-> SeedJob("failed")]
    /\ admin_user_overrides = <<>>
    /\ staff_accounts = [a \in {admin_staff} |-> TRUE]
    /\ staff_roles = [a \in {admin_staff} |-> {"admin", "owner"}]
    /\ reference_images = <<>>
    /\ generated_images = <<>>
    /\ event_logs = <<>>
    /\ written = {}
    /\ snapshots = [s \in Sessions |-> {}]
    /\ served = 0
    /\ pc = [s \in Sessions |-> "idle"]
    /\ req = [s \in Sessions |-> NoReq]
    /\ loc = [s \in Sessions |-> NoLoc]
    /\ resp = [s \in Sessions |-> NoResp]

\* the token dashboard over these ledgers, no writer running
SpecTrend ==
    InitTrend /\ [][\/ \E s \in Sessions : token_dashboard(s)
                    \/ \E s \in Sessions : token_dashboard_consumed(s)
                    \/ \E s \in Sessions : token_dashboard_outstanding(s)
                    \/ \E s \in Sessions : get_db(s)]_vars

\* an event_logs row
EventLog(id, type, uid, created_at) ==
    [id |-> id, type |-> type, user_id |-> uid, created_at |-> created_at]

\* a generation job with its owner and creation time
OwnedJob(status, uid) == SeedJob(status) @@ [user_id |-> uid, created_at |-> 0]

\* a database holding up to MaxEvents events, no two created at the same time,
\* and jobs of any status and owner
InitEvents ==
    /\ users = [u \in UserIds |-> "active"]
    /\ wallets = <<>>
    /\ ledger = <<>>
    /\ audit = <<>>
    /\ jobs \in [JobIds -> {OwnedJob(st, u) : st \in JOB_STATUSES, u \in UserIds}]
    /\ admin_user_overrides = <<>>
    /\ staff_accounts = [a \in {admin_staff} |-> TRUE]
    /\ staff_roles = [a \in {admin_staff} |-> {"admin", "owner"}]
    /\ reference_images = <<>>
    /\ generated_images = <<>>
    /\ \E n \in 0..MaxEvents :
          \E f \in [1..n -> {"login", "generation_start"} \X UserIds] :
             event_logs = [i \in 1..n |-> EventLog(i, f[i][1], f[i][2], i)]
    /\ now = 0
    /\ written = {}
    /\ snapshots = [s \in Sessions |-> {}]
    /\ served = 0
    /\ pc = [s \in Sessions |-> "idle"]
    /\ req = [s \in Sessions |-> NoReq]
    /\ loc = [s \in Sessions |-> NoLoc]
    /\ resp = [s \in Sessions |-> NoResp]

\* the event listing over these tables, one request at a time
SpecEvents ==
    InitEvents /\ [][\/ Quiet /\ EventRequests
                     \/ \E s \in Sessions : list_events_items(s)
                     \/ \E s \in Sessions : list_events_fallback(s)
                     \/ \E s \in Sessions : list_events_synthesized(s)
                     \/ \E s \in Sessions : get_db(s)]_vars

\* a job of any seeded status, no token data
InitJobs == Init /\ ledger = <<>> /\ wallets = <<>>

\* the job operations, interleaved, the clock running
SpecJobs ==
    InitJobs /\ [][\/ JobRequests
                   \/ \E s \in Sessions : job_commit(s)
                   \/ \E s \in Sessions : get_db(s)
                   \/ Tick]_vars

\* an admin and a billing clerk, both active, and no token data
InitStaff ==
    /\ users = [u \in UserIds |-> "active"]
    /\ wallets = <<>>
    /\ ledger = <<>>
    /\ audit = <<>>
    /\ jobs = [j \in JobIds |-> SeedJob("failed")]
    /\ admin_user_overrides = <<>>
    /\ staff_accounts = [a \in StaffIds |-> TRUE]
    /\ staff_roles = [a \in StaffIds |-> IF a = admin_staff THEN {"admin", "owner"}
                                         ELSE {"billing"}]
    /\ reference_images = <<>>
    /\ generated_images = <<>>
    /\ event_logs = <<>>
    /\ now = 0
    /\ written = {}
    /\ snapshots = [s \in Sessions |-> {}]
    /\ served = 0
    /\ pc = [s \in Sessions |-> "idle"]
    /\ req = [s \in Sessions |-> NoReq]
    /\ loc = [s \in Sessions |-> NoLoc]
    /\ resp = [s \in Sessions |-> NoResp]

\* the staff operations and grants by any staff member, interleaved, every
\* audit write succeeding
SpecStaff ==
    InitStaff /\ [][\/ StaffRequests
                    \/ \E s \in Sessions : staff_commit(s)
                    \/ StaffGrantRequests
                    \/ GrantSteps
                    \/ \E s \in Sessions : create_audit_log(s)
                    \/ \E s \in Sessions : get_db(s)]_vars

\* grants and the per-user read, interleaved, every audit write succeeding
SpecSnapshot ==
    InitEmpty /\ [][\/ GrantRequests
                    \/ UserTokensRequests
                    \/ GrantSteps
                    \/ \E s \in Sessions : create_audit_log(s)
                    \/ \E s \in Sessions : get_user_tokens_wallet(s)
                    \/ \E s \in Sessions : get_user_tokens_count(s)
                    \/ \E s \in Sessions : get_user_tokens_items(s)
                    \/ \E s \in Sessions : get_db(s)]_vars

\* an image row
Image(id, uid, created_at) == [id |-> id, user_id |-> uid, created_at |-> created_at]

\* the images of kind k among those created at times 1..n, in insertion order
ImagesOf(f, k) ==
    LET at == SelectSeq([t \in DOMAIN f |-> t], LAMBDA t: f[t][1] = k)
    IN [i \in DOMAIN at |-> Image(i, f[at[i]][2], at[i])]

\* a database holding up to MaxAssets images of the two kinds, no two
\* created at the same time
InitAssets ==
    /\ users = [u \in UserIds |-> "active"]
    /\ wallets = <<>>
    /\ ledger = <<>>
    /\ audit = <<>>
    /\ jobs = [j \in JobIds |-> SeedJob("failed")]
    /\ admin_user_overrides = <<>>
    /\ staff_accounts = [a \in {admin_staff} |-> TRUE]
    /\ staff_roles = [a \in {admin_staff} |-> {"admin", "owner"}]
    /\ \E n \in 0..MaxAssets :
          \E f \in [1..n -> {"reference", "generated"} \X UserIds] :
             /\ reference_images = ImagesOf(f, "reference")
             /\ generated_images = ImagesOf(f, "generated")
    /\ event_logs = <<>>
    /\ now = 0
    /\ written = {}
    /\ snapshots = [s \in Sessions |-> {}]
    /\ served = 0
    /\ pc = [s \in Sessions |-> "idle"]
    /\ req = [s \in Sessions |-> NoReq]
    /\ loc = [s \in Sessions |-> NoLoc]
    /\ resp = [s \in Sessions |-> NoResp]

\* the asset listing over these images, one request at a time
SpecAssets ==
    InitAssets /\ [][\/ Quiet /\ AssetRequests
                     \/ \E s \in Sessions : list_assets_items(s)
                     \/ \E s \in Sessions : get_db(s)]_vars

\* grants and the ledger reads, a request arriving once the one before it is
\* answered, the clock running
SpecReads ==
    InitEmpty /\  [][\/ Calm /\ (GrantRequests \/ LedgerRequests)
                     \/ GrantSteps
                     \/ \E s \in Sessions : create_audit_log(s)
                     \/ LedgerSteps
                     \/ \E s \in Sessions : get_db(s)
                     \/ Tick]_vars

\* ------------------------------------------------------------------ claims
Served(s, op) == pc[s] = "done" /\ req[s].op = op
SeedTxs == SelectSeq(ledger, LAMBDA t: t.ref_type = "seed")
GrantedTo(uid) == SelectSeq(ledger, LAMBDA t: t.ref_type = "" /\ t.user_id = uid)
GrantAuditsOf(uid) ==
    SelectSeq(audit, LAMBDA a: a.user_agent # "Seed" /\ a.action = "tokens.grant"
                               /\ a.target_id = uid)
GrantInFlight(uid) ==
    \E s \in Sessions : req[s].op = "grant" /\ req[s].user_id = uid
                        /\ pc[s] \notin {"idle", "done"}

\* C1: whenever no request is in progress, every wallet's balance is
\* max(0, sum of the amounts of its user's transactions).
C1_Conservation ==
    (\A s \in Sessions : pc[s] \in {"idle", "done"})
        => \A u \in DOMAIN wallets : wallets[u] = Max(0, sumByUser(ledger, u))

\* C2: for a user that started without transactions (balance 0), once no grant
\* to the user is in progress and every committed grant reported success, the
\* balance is the sum of the granted amounts and there is one transaction per
\* successful grant.
C2_NoLostUpdate ==
    \A u \in UserIds :
        ( /\ TxOfUser(SeedTxs, u) = <<>>
          /\ ~GrantInFlight(u)
          /\ Len(GrantAuditsOf(u)) = Len(GrantedTo(u))
          /\ Len(GrantedTo(u)) > 0 )
        => /\ u \in DOMAIN wallets
           /\ wallets[u] = SumAmounts(GrantedTo(u))

\* C4: after a grant call that failed, the transaction it created is not in
\* the ledger.
C4_FailedGrantPersistsNothing ==
    \A s \in Sessions :
        (Served(s, "grant") /\ resp[s].status # 200)
            => \A i \in 1..Len(ledger) : ledger[i].id # loc[s].tx_id

\* C9: the new_balance a successful grant returns is the balance it read plus
\* its amount.
C9_NewBalanceIsOwnIncrement ==
    \A s \in Sessions :
        (Served(s, "grant") /\ resp[s].status = 200)
            => resp[s].balance = loc[s].balance

\* the step is one of session s's serving a request op
StepOf(s, op) == pc'[s] # pc[s] /\ (req[s].op = op \/ req'[s].op = op)

Last(seq) == seq[Len(seq)]

\* C3: a grant that runs alone changes the state by exactly this: at its commit
\* the user's wallet holds the previous balance (0 without a wallet) plus the
\* amount and the ledger gains one credit_grant transaction of that user,
\* amount and actor; its audit write appends one tokens.grant entry for the
\* user with after_json = {amount, reason}; no other step of it writes.
C3_GrantEffect ==
    [][\A s \in Sessions : StepOf(s, "grant") =>
        LET r == req[s]
            u == r.user_id
            prev == IF u \in DOMAIN wallets THEN wallets[u] ELSE 0
        IN IF pc[s] = "g_commit"
           THEN /\ DOMAIN wallets' = DOMAIN wallets \cup {u}
                /\ wallets'[u] = prev + r.amount
                /\ \A w \in DOMAIN wallets \ {u} : wallets'[w] = wallets[w]
                /\ Len(ledger') = Len(ledger) + 1
                /\ SubSeq(ledger', 1, Len(ledger)) = ledger
                /\ Last(ledger').user_id = u
                /\ Last(ledger').amount = r.amount
                /\ Last(ledger').type = "credit_grant"
                /\ Last(ledger').created_by_admin_id = r.actor
                /\ UNCHANGED <<users, audit, jobs>>
           ELSE IF pc[s] = "audit" /\ pc'[s] = "g_response"
           THEN /\ Len(audit') = Len(audit) + 1
                /\ SubSeq(audit', 1, Len(audit)) = audit
                /\ Last(audit').action = "tokens.grant"
                /\ Last(audit').target_id = u
                /\ Last(audit').actor_id = r.actor
                /\ Last(audit').after_json = [amount |-> r.amount, reason |-> r.reason]
                /\ UNCHANGED <<users, wallets, ledger, jobs>>
           ELSE /\ UNCHANGED db
                /\ pc'[s] = "done" /\ resp'[s].status = 200
                     => pc[s] = "g_response" /\ loc[s].tx_id > 0 /\ loc[s].audit_id > 0
      ]_vars

\* a grant to a user without a wallet and a grant to a user with a balance
\* have both succeeded
C3_Witness ==
    \E s \in Sessions :
        /\ Served(s, "grant") /\ resp[s].status = 200
        /\ wallets[req[s].user_id] > req[s].amount
        /\ \E u \in DOMAIN wallets : \E i \in 1..Len(ledger) :
              /\ ledger[i].ref_type # "seed" /\ ledger[i].user_id = u
              /\ TxOfUser(SeedTxs, u) = <<>>
              /\ u # req[s].user_id

\* C5: a grant request with amount <= 0 is answered 400 in its first step, and
\* neither that step nor the rest of the request changes wallets, transactions
\* or audit log.
C5_InvalidAmountRejected ==
    [][\A s \in Sessions :
          /\ (pc[s] = "idle" /\ req'[s].op = "grant" /\ req'[s].amount <= 0)
                => /\ pc'[s] = "done"
                   /\ resp'[s].status = 400
                   /\ UNCHANGED <<wallets, ledger, audit>>
          /\ (Served(s, "grant") /\ req[s].amount <= 0 /\ pc'[s] # pc[s])
                => pc'[s] = "idle" /\ UNCHANGED <<wallets, ledger, audit>>
      ]_vars

\* grants of 0 and of a negative amount have been rejected
C5_Witness ==
    \E s, t \in Sessions :
        /\ Served(s, "grant") /\ req[s].amount = 0 /\ resp[s].status = 400
        /\ Served(t, "grant") /\ req[t].amount < 0 /\ resp[t].status = 400

\* C6: a grant request with a positive amount for a user id that has no row, or
\* whose row has status deleted, is answered 404 in its first step, and neither
\* that step nor the rest of the request changes wallets, transactions or
\* audit log.
C6_MissingUserRejected ==
    [][\A s \in Sessions :
          /\ ( /\ pc[s] = "idle" /\ req'[s].op = "grant" /\ req'[s].amount > 0
               /\ \/ req'[s].user_id \notin DOMAIN users
                  \/ users[req'[s].user_id] = "deleted" )
                => /\ pc'[s] = "done"
                   /\ resp'[s].status = 404
                   /\ UNCHANGED <<wallets, ledger, audit>>
          /\ (Served(s, "grant") /\ resp[s].status = 404 /\ pc'[s] # pc[s])
                => pc'[s] = "idle" /\ UNCHANGED <<wallets, ledger, audit>>
      ]_vars

\* grants to an unknown id and to a deleted user have been rejected
C6_Witness ==
    \E s, t \in Sessions :
        /\ Served(s, "grant") /\ req[s].user_id = NoUser /\ resp[s].status = 404
        /\ Served(t, "grant") /\ req[t].user_id \in UserIds
        /\ users[req[t].user_id] = "deleted" /\ resp[t].status = 404
        /\ req[t].amount > 0 /\ req[s].amount > 0

\* C7: no step of any operation removes or changes a transaction: the ledger
\* after the step begins with the ledger before it.
C7_LedgerAppendOnly ==
    [][/\ Len(ledger') >= Len(ledger)
       /\ SubSeq(ledger', 1, Len(ledger)) = ledger]_vars

\* a grant has been appended behind a seeded transaction, a user operation
\* has committed, and the ledger has been read
C7_Witness ==
    /\ Len(ledger) >= 2
    /\ ledger[1].ref_type = "seed"
    /\ ledger[Len(ledger)].ref_type # "seed"
    /\ \E u \in UserIds : users[u] # "active"
    /\ \E s \in Sessions : Served(s, "token_ledger") /\ Len(resp[s].items) = 2

MutatingOps == {"grant", "suspend", "unsuspend", "delete", "retry_job", "cancel_job"}

\* C8: a request that has been answered has written an audit entry of its own
\* exactly if it is a mutating operation that succeeded.
C8_OneAuditEntryPerMutation ==
    \A s \in Sessions :
        pc[s] = "done" =>
            IF req[s].op \in MutatingOps /\ resp[s].status = 200
            THEN /\ loc[s].audit_id \in 1..Len(audit)
                 /\ audit[loc[s].audit_id].target_id = req[s].user_id
            ELSE loc[s].audit_id = 0

\* C10: a ledger or user-tokens read creates no wallet and reports balance 0
\* for a user without one, and two answered reads of the same request with no
\* write committed since either began carry the same response.
C10_ReadsRepeatable ==
    /\ \A s \in Sessions :
          (Served(s, "get_user_tokens") /\ resp[s].status = 200 /\ s \notin written
             /\ req[s].user_id \notin DOMAIN wallets)
          => resp[s].balance = 0
    /\ \A s, t \in Sessions :
          (pc[s] = "done" /\ pc[t] = "done" /\ req[s].op \in ReadOps
             /\ req[s] = req[t] /\ s \notin written /\ t \notin written)
          => resp[s] = resp[t]

UserOps == StatusOps \cup {"reset_mfa", "revoke_sessions"}

\* C11: no step removes a wallet, no step of a user operation (suspend,
\* unsuspend, reset-mfa, revoke-sessions, delete) changes a wallet, and a step
\* that changes a wallet is the commit of a grant or a recomputation.
C11_WalletsChangedOnlyByGrants ==
    [][/\ DOMAIN wallets \subseteq DOMAIN wallets'
       /\ \A s \in Sessions :
             (\E op \in UserOps : StepOf(s, op)) => wallets' = wallets
       /\ wallets' # wallets =>
             \/ \E s \in Sessions : pc[s] = "g_commit" /\ pc'[s] = "audit"
             \/ pc' = pc /\ ledger' = ledger
      ]_vars

\* a user with a positive balance has been deleted and keeps the wallet, and
\* an MFA reset has been served
C11_Witness ==
    /\ \E u \in DOMAIN wallets : users[u] = "deleted" /\ wallets[u] > 0
    /\ \E s \in Sessions : Served(s, "reset_mfa") /\ resp[s].status = 200

\* the wallet rows of uid, committed or inserted and not yet committed
WalletRows(uid) ==
    (IF uid \in DOMAIN wallets THEN 1 ELSE 0)
    + Cardinality({t \in Sessions : /\ pc[t] = "g_commit"
                                    /\ loc[t].created
                                    /\ req[t].user_id = uid})

\* C12: no user has more than one wallet row, also while first grants to the
\* same user run concurrently.
C12_OneWalletPerUser == \A u \in UserIds : WalletRows(u) <= 1

\* two first grants to one user have met: one has created the wallet and
\* committed, the other's INSERT has failed
C12_Witness ==
    \E s, t \in Sessions :
        /\ s # t
        /\ req[s].op = "grant" /\ req[t].op = "grant"
        /\ req[s].user_id = req[t].user_id
        /\ loc[s].created /\ loc[s].tx_id > 0
        /\ pc[t] = "done" /\ resp[t].status = 500
        /\ WalletRows(req[s].user_id) = 1

\* C13: every wallet's balance is >= 0 in every reachable state.
C13_BalanceNonNegative == \A u \in DOMAIN wallets : wallets[u] >= 0

\* a wallet stands at 0 over a ledger that sums below 0, after a grant and a
\* debit
C13_Witness ==
    \E u \in DOMAIN wallets :
        /\ wallets[u] = 0
        /\ sumByUser(ledger, u) < 0
        /\ GrantedTo(u) # <<>>
        /\ \E i \in 1..Len(ledger) : ledger[i].ref_type = "job" /\ ledger[i].user_id = u
        /\ ~GrantInFlight(u)

\* C14: when the grants to a user have run one after another, each of the k
\* successful calls (one audit entry each), repeated or not, has its own
\* transaction with its own id, and the balance is the balance before them
\* plus the sum of their amounts.
C14_GrantsNotDeduplicated ==
    \A u \in UserIds :
        ~GrantInFlight(u) =>
            /\ Len(GrantedTo(u)) = Len(GrantAuditsOf(u))
            /\ \A i, j \in 1..Len(ledger) : ledger[i].id = ledger[j].id => i = j
            /\ GrantedTo(u) # <<>> =>
                  /\ u \in DOMAIN wallets
                  /\ wallets[u] = recompute_balance(SeedTxs, u)
                                  + SumAmounts(GrantedTo(u))

\* the same grant has been served twice: two transactions, twice the amount
C14_Witness ==
    \E u \in UserIds :
        /\ ~GrantInFlight(u)
        /\ Len(GrantedTo(u)) = 2
        /\ GrantedTo(u)[1].amount = GrantedTo(u)[2].amount
        /\ GrantedTo(u)[1].reason = GrantedTo(u)[2].reason
        /\ GrantedTo(u)[1].created_by_admin_id = GrantedTo(u)[2].created_by_admin_id
        /\ GrantedTo(u)[1].id # GrantedTo(u)[2].id
        /\ wallets[u] = recompute_balance(SeedTxs, u) + 2 * GrantedTo(u)[1].amount

\* the user's transactions are one grant followed by one larger debit
GrantThenOverdraft(u) ==
    LET txs == TxOfUser(ledger, u)
    IN /\ Len(txs) = 2
       /\ txs[1].type = "credit_grant" /\ txs[1].ref_type = ""
       /\ txs[2].amount < 0 /\ txs[1].amount + txs[2].amount < 0
       /\ ~GrantInFlight(u)

\* C15: a debit of magnitude m > 0 appends exactly one transaction, of amount
\* -m, and sets the user's wallet to the previous balance minus m floored at
\* 0; and after a grant to a user without wallet followed by a larger debit
\* the user has two transactions, a negative sum and balance 0.
C15_DebitEffect ==
    /\ [][(pc' = pc /\ ledger' # ledger) =>
            \E u \in UserIds, m \in Magnitudes :
               LET prev == IF u \in DOMAIN wallets THEN wallets[u] ELSE 0
               IN /\ Len(ledger') = Len(ledger) + 1
                  /\ SubSeq(ledger', 1, Len(ledger)) = ledger
                  /\ Last(ledger').user_id = u
                  /\ Last(ledger').amount = 0 - m
                  /\ DOMAIN wallets' = DOMAIN wallets \cup {u}
                  /\ wallets'[u] = Max(0, prev - m)
                  /\ \A w \in DOMAIN wallets \ {u} : wallets'[w] = wallets[w]
         ]_vars
    /\ [](\A u \in UserIds :
            GrantThenOverdraft(u) =>
               /\ wallets[u] = 0
               /\ sumByUser(ledger, u) = TxOfUser(ledger, u)[1].amount
                                         + TxOfUser(ledger, u)[2].amount)

\* grant(U, 2) then debit(U, 3) on a user that had no wallet: two
\* transactions, sum -1, balance 0
C15_Witness ==
    \E u \in UserIds :
        /\ GrantThenOverdraft(u)
        /\ TxOfUser(ledger, u)[1].amount = 2
        /\ TxOfUser(ledger, u)[2].amount = 0 - 3
        /\ sumByUser(ledger, u) = 0 - 1
        /\ wallets[u] = 0
        /\ \E i \in 1..Len(audit) : audit[i].user_agent # "Seed" /\ audit[i].target_id = u

\* C16: a recomputation sets one user's wallet to max(0, sum of that user's
\* amounts) and changes no transaction and no other wallet; recomputing the
\* user again right after it would change nothing.
C16_RecomputeEffect ==
    [][pc' = pc =>
         /\ ledger' = ledger
         /\ \E u \in DOMAIN wallets :
               /\ wallets' = [wallets EXCEPT ![u] = Max(0, sumByUser(ledger, u))]
               /\ [wallets' EXCEPT ![u] = Max(0, sumByUser(ledger', u))] = wallets'
      ]_vars

\* a recomputation has brought a balance that a grant had raised above the
\* ledger's sum back to it
C16_Witness ==
    \E u \in DOMAIN wallets :
        /\ GrantedTo(u) # <<>>
        /\ ~GrantInFlight(u)
        /\ sumByUser(SeedTxs, u) < 0
        /\ sumByUser(ledger, u) = 0
        /\ wallets[u] = 0

RECURSIVE SumOfAmounts(_, _)
\* the sum of the amounts of sign sgn (1 or -1) in txs
SumOfAmounts(txs, sgn) ==
    IF txs = <<>> THEN 0
    ELSE (IF Head(txs).amount * sgn > 0 THEN Head(txs).amount ELSE 0)
         + SumOfAmounts(Tail(txs), sgn)

AmountsOf(txs) == [i \in 1..Len(txs) |-> txs[i].amount]

\* C17: a dashboard answered over a ledger reports as total_issued the sum of
\* its strictly positive amounts and as total_consumed the absolute value of
\* the sum of its strictly negative amounts, so that their difference is the
\* sum of all amounts; both are 0 on the empty ledger.
C17_DashboardTotals ==
    \A s \in Sessions :
        (pc[s] = "done" /\ req[s].op \in {"token_dashboard", "get_kpis"}) =>
            /\ resp[s].total_issued = SumOfAmounts(ledger, 1)
            /\ resp[s].total_consumed = 0 - SumOfAmounts(ledger, 0 - 1)
            /\ resp[s].total_issued - resp[s].total_consumed = SumAmounts(ledger)
            /\ ledger = <<>> => resp[s].total_issued = 0 /\ resp[s].total_consumed = 0

\* both dashboards have been answered over the amounts [10, -3, 5, -2] with
\* 15 and 5
C17_Witness ==
    /\ AmountsOf(ledger) = <<10, 0 - 3, 5, 0 - 2>>
    /\ \E s, t \in Sessions :
          /\ Served(s, "token_dashboard") /\ Served(t, "get_kpis")
          /\ resp[s].total_issued = 15 /\ resp[s].total_consumed = 5
          /\ resp[t].total_issued = 15 /\ resp[t].total_consumed = 5

\* rows sorted by created_at descending, rows of equal created_at in
\* insertion order (ascending id)
StableDescending(rows) ==
    CHOOSE o \in order_by_created_at_desc(rows) :
        \A i, j \in 1..Len(o) :
            (i < j /\ o[i].created_at = o[j].created_at) => o[i].id < o[j].id

\* C18: a ledger listing (global or per user) answered with no write since it
\* began returns the rows at positions (p-1)*L .. p*L-1 of the matching
\* transactions sorted by created_at descending with ties in insertion order,
\* and as total the number of all matching transactions.
C18_ListingDetermined ==
    \A s \in Sessions :
        (pc[s] = "done" /\ req[s].op \in ReadOps /\ resp[s].status = 200
           /\ s \notin written) =>
            LET rows == Matching(ledger, req[s].user_id, req[s].type)
            IN /\ resp[s].items = offset_limit(StableDescending(rows),
                                               req[s].page, req[s].limit)
               /\ resp[s].total = Len(rows)

\* C19: no step of a suspend or unsuspend request changes the users table,
\* and the commit of one leaves the suspension state in the user's
\* admin_user_overrides row.
C19_SuspensionInOverlay ==
    [][\A s \in Sessions :
          (StepOf(s, "suspend") \/ StepOf(s, "unsuspend")) =>
             /\ users' = users
             /\ pc[s] = "u_commit" =>
                   LET u == req[s].user_id
                   IN /\ u \in DOMAIN admin_user_overrides'
                      /\ admin_user_overrides'[u].is_suspended
                            = (req[s].op = "suspend")
                      /\ req[s].op = "suspend" =>
                            /\ admin_user_overrides'[u].suspended_at = now
                            /\ admin_user_overrides'[u].suspended_reason = req[s].reason
      ]_vars

\* the matching images of the kinds asked for, as the response presents them
MatchingAssets(uid, asset_type) ==
    LET refs == MatchingImages(reference_images, uid)
        gens == MatchingImages(generated_images, uid)
    IN (IF asset_type \in {"", "reference"}
        THEN [i \in DOMAIN refs |-> ImageAssetOut(refs[i], "reference")] ELSE <<>>)
       \o (IF asset_type \in {"", "generated"}
           THEN [i \in DOMAIN gens |-> ImageAssetOut(gens[i], "generated")] ELSE <<>>)

\* C20: an asset listing for page p and limit L returns the items at positions
\* (p-1)*L .. p*L-1 of all matching reference and generated images merged and
\* sorted by created_at descending, and as total the count of both kinds.
C20_AssetPages ==
    \A s \in Sessions :
        Served(s, "list_assets") =>
            LET all == MatchingAssets(req[s].user_id, req[s].type)
            IN /\ resp[s].items = offset_limit(sort_reverse(all), req[s].page,
                                               req[s].limit)
               /\ resp[s].total = Len(all)

\* the audit entries that admin requests wrote
RequestAudits == SelectSeq(audit, LAMBDA a: a.user_agent # "Seed")

\* C21: an audit entry is appended only by a request that is past its commit,
\* a request gets past its commit only by the step that makes its effect
\* durable (the wallet and the transaction of a grant, the status of a suspend,
\* unsuspend or delete), a request that fails validation appends nothing, and
\* in every state each grant audit entry has its transaction in the ledger.
C21_AuditAfterCommit ==
    /\ [][\A s \in Sessions :
            /\ (pc'[s] = "audit" /\ pc[s] # "audit") =>
                  LET r == req[s]
                      u == r.user_id
                  IN /\ audit' = audit
                     /\ r.op = "grant" =>
                           /\ u \in DOMAIN wallets'
                           /\ Len(ledger') = Len(ledger) + 1
                           /\ Last(ledger').user_id = u
                           /\ Last(ledger').amount = r.amount
                           /\ Last(ledger').id = loc'[s].tx_id
                     /\ r.op \in StatusOps => users'[u] = new_status(r.op)
            /\ (pc[s] = "idle" /\ pc'[s] = "done") =>
                  /\ resp'[s].status \in {400, 404}
                  /\ audit' = audit
                  /\ loc'[s].audit_id = 0
         ]_vars
    /\ [][audit' # audit =>
            \E s \in Sessions :
               /\ pc[s] = "audit"
               /\ Len(audit') = Len(audit) + 1
               /\ SubSeq(audit', 1, Len(audit)) = audit
               /\ Last(audit').target_id = req[s].user_id
               /\ req[s].op = "grant" =>
                     \E i \in 1..Len(ledger) :
                        /\ ledger[i].id = loc[s].tx_id
                        /\ ledger[i].user_id = req[s].user_id
                        /\ ledger[i].amount = req[s].amount
         ]_vars
    /\ [](\A u \in UserIds : Len(GrantAuditsOf(u)) <= Len(GrantedTo(u)))

\* a delete and a grant have been audited after their commits, while a
\* request that failed validation has left no entry
C21_Witness ==
    /\ Len(RequestAudits) = 2
    /\ \E i, j \in 1..Len(audit) :
          /\ audit[i].action = "user.delete" /\ audit[i].user_agent # "Seed"
          /\ users[audit[i].target_id] = "deleted"
          /\ audit[j].action = "tokens.grant" /\ audit[j].user_agent # "Seed"
          /\ GrantedTo(audit[j].target_id) # <<>>
    /\ \E s \in Sessions : Served(s, "suspend") /\ resp[s].status = 404
                           /\ loc[s].audit_id = 0

\* the transactions whose created_at lies in UTC day d
CreatedOn(d) == SelectSeq(ledger, LAMBDA t: t.created_at \div DayLength = d)

RECURSIVE SumField(_, _)
\* the sum of one field over the entries of a trend
SumField(trend, issued) ==
    IF trend = <<>> THEN 0
    ELSE (IF issued THEN Head(trend).issued ELSE Head(trend).consumed)
         + SumField(Tail(trend), issued)

\* C22: the daily_trend of an answered token dashboard has 7 entries, for the
\* 7 consecutive days ending today in ascending order; each entry's issued and
\* consumed are the sum of the positive amounts and the absolute sum of the
\* negative amounts of the transactions created in that day; the entries
\* together count no transaction twice and stay within the totals.
C22_DailyTrend ==
    \A s \in Sessions :
        Served(s, "token_dashboard") =>
            LET trend == resp[s].daily_trend
                today == now \div DayLength
            IN /\ Len(trend) = 7
               /\ \A i \in 1..7 :
                     /\ trend[i].date = today - (7 - i)
                     /\ trend[i].issued = SumOfAmounts(CreatedOn(trend[i].date), 1)
                     /\ trend[i].consumed =
                           0 - SumOfAmounts(CreatedOn(trend[i].date), 0 - 1)
                     /\ trend[i].issued <= resp[s].total_issued
                     /\ trend[i].consumed <= resp[s].total_consumed
               /\ SumField(trend, TRUE) <= resp[s].total_issued
               /\ SumField(trend, FALSE) <= resp[s].total_consumed

\* a dashboard has been answered over a transaction created at the first clock
\* value of today, one created at the last clock value of yesterday and so
\* counted there, the totals exceeding no entry
C22_Witness ==
    \E s \in Sessions :
        /\ Served(s, "token_dashboard")
        /\ Len(ledger) = 2
        /\ ledger[1].created_at = (now \div DayLength) * DayLength - 1
        /\ ledger[2].created_at = (now \div DayLength) * DayLength
        /\ ledger[1].amount > 0 /\ ledger[2].amount > 0
        /\ resp[s].daily_trend[6].issued = ledger[1].amount
        /\ resp[s].daily_trend[7].issued = ledger[2].amount
        /\ resp[s].total_issued = ledger[1].amount + ledger[2].amount

\* C23: whenever event_logs holds at least one row, an answered event listing
\* contains only event_logs rows that pass its filters and reports their
\* number as total (no item and total 0 when none passes): it never contains
\* an event synthesized from a generation job.
C23_NoSynthesisOverEvents ==
    \A s \in Sessions :
        (Served(s, "list_events") /\ event_logs # <<>>) =>
            LET matching == MatchingEvents(req[s].user_id, req[s].type)
            IN /\ resp[s].total = Len(matching)
               /\ \A i \in DOMAIN resp[s].items :
                     /\ resp[s].items[i].id[1] = "event"
                     /\ \E k \in DOMAIN matching :
                           resp[s].items[i] = EventLogOut(matching[k])

\* the operations on one user
TargetedOps == UserOps \cup {"grant", "get_user_tokens"}

\* C24: a user whose status is deleted keeps it in every later state, and a
\* user-targeted request that arrives for such a user is answered 404 (400
\* for a grant whose amount is not positive) in its first step, which changes
\* nothing.
C24_DeletedIsTerminal ==
    [][\A u \in UserIds :
          users[u] = "deleted" =>
             /\ users'[u] = "deleted"
             /\ \A s \in Sessions :
                   ( /\ pc[s] = "idle" /\ pc'[s] # "idle"
                     /\ req'[s].user_id = u /\ req'[s].op \in TargetedOps ) =>
                      /\ pc'[s] = "done"
                      /\ resp'[s].status =
                            IF req'[s].op = "grant" /\ req'[s].amount <= 0
                            THEN 400 ELSE 404
                      /\ UNCHANGED db
      ]_vars

\* C25: the commit of a suspend finds the user neither deleted nor suspended
\* and makes it suspended; the commit of an unsuspend finds it suspended and
\* makes it active; the before snapshot each of them hands to the audit log is
\* the status held just before the change; a suspend of a suspended user and
\* an unsuspend of a user that is not suspended are answered 400 and write
\* neither the status nor an audit entry.
C25_GuardedToggle ==
    [][\A s \in Sessions :
          LET u == req[s].user_id
          IN /\ (pc[s] = "u_commit" /\ pc'[s] # pc[s] /\ req[s].op = "suspend") =>
                   /\ users[u] \notin {"deleted", "suspended"}
                   /\ users'[u] = "suspended"
                   /\ loc[s].before = users[u]
             /\ (pc[s] = "u_commit" /\ pc'[s] # pc[s] /\ req[s].op = "unsuspend") =>
                   /\ users[u] = "suspended"
                   /\ users'[u] = "active"
                   /\ loc[s].before = users[u]
             /\ ( /\ pc[s] = "idle" /\ pc'[s] # "idle"
                  /\ req'[s].user_id \in UserIds
                  /\ \/ req'[s].op = "suspend" /\ users[req'[s].user_id] = "suspended"
                     \/ req'[s].op = "unsuspend" /\ users[req'[s].user_id] = "active" ) =>
                   /\ pc'[s] = "done"
                   /\ resp'[s].status = 400
                   /\ loc'[s].audit_id = 0
                   /\ UNCHANGED <<users, audit>>
      ]_vars

\* C26: the commit of a retry finds the job failed and leaves it pending with
\* error_message and completed_at cleared; the commit of a cancel finds it
\* pending, running or processing and leaves it cancelled with completed_at
\* set; a retry or cancel that arrives at a job of any other status is
\* answered 400; and no step changes a completed or cancelled job.
C26_JobTransitions ==
    [][\A s \in Sessions :
          LET j == req[s].job_id
          IN /\ (pc[s] = "j_commit" /\ pc'[s] # pc[s] /\ req[s].op = "retry_job") =>
                   /\ jobs[j].status = "failed"
                   /\ jobs'[j].status = "pending"
                   /\ jobs'[j].error_message = ""
                   /\ jobs'[j].completed_at = NoTime
             /\ (pc[s] = "j_commit" /\ pc'[s] # pc[s] /\ req[s].op = "cancel_job") =>
                   /\ jobs[j].status \in {"pending", "running", "processing"}
                   /\ jobs'[j].status = "cancelled"
                   /\ jobs'[j].completed_at = now
             /\ ( /\ pc[s] = "idle" /\ pc'[s] # "idle"
                  /\ req'[s].job_id \in JobIds
                  /\ \/ /\ req'[s].op = "retry_job"
                        /\ jobs[req'[s].job_id].status # "failed"
                     \/ /\ req'[s].op = "cancel_job"
                        /\ jobs[req'[s].job_id].status
                              \notin {"pending", "running", "processing"} ) =>
                   /\ pc'[s] = "done"
                   /\ resp'[s].status = 400
                   /\ jobs' = jobs
             /\ \A k \in JobIds :
                   jobs[k].status \in {"completed", "cancelled"} => jobs'[k] = jobs[k]
      ]_vars

\* the caller's staff row, as committed now, is inactive or holds none of the
\* roles admin, owner, billing
MayNotGrant(c) ==
    \/ ~staff_accounts[c]
    \/ \A r \in {"admin", "owner", "billing"} : r \notin staff_roles[c]

\* C27: a grant request whose caller is, when it arrives, inactive or without
\* any of the roles admin, owner, billing is answered 403 in its first step,
\* and neither that step nor the rest of the request changes wallets,
\* transactions or audit log, whatever the caller was allowed before.
C27_AuthorizedOnCurrentState ==
    [][\A s \in Sessions :
          /\ ( /\ pc[s] = "idle" /\ req'[s].op = "grant"
               /\ req'[s].actor \in DOMAIN staff_accounts
               /\ MayNotGrant(req'[s].actor) )
                => /\ pc'[s] = "done"
                   /\ resp'[s].status = 403
                   /\ loc'[s].tx_id = 0 /\ loc'[s].audit_id = 0
                   /\ UNCHANGED <<wallets, ledger, audit>>
          /\ (Served(s, "grant") /\ resp[s].status = 403 /\ pc'[s] # pc[s])
                => pc'[s] = "idle" /\ UNCHANGED <<wallets, ledger, audit>>
      ]_vars

\* a staff member whose grant went through while active has been deactivated
\* and then refused, and another has been refused after losing its roles
C27_Witness ==
    \E s, t \in Sessions :
        /\ Served(s, "grant") /\ resp[s].status = 403
        /\ ~staff_accounts[req[s].actor]
        /\ staff_roles[req[s].actor] = {"billing"}
        /\ \E i \in 1..Len(ledger) : ledger[i].created_by_admin_id = req[s].actor
        /\ Served(t, "grant") /\ resp[t].status = 403
        /\ staff_accounts[req[t].actor]
        /\ staff_roles[req[t].actor] = {}

\* C28: no step of a deactivate_staff or update_staff request changes the
\* is_active of the staff member who sent it from true to false.
C28_NoSelfDeactivation ==
    [][\A s \in Sessions :
          (StepOf(s, "deactivate_staff") \/ StepOf(s, "update_staff")) =>
             LET c == req[s].actor
             IN c \in DOMAIN staff_accounts =>
                   ~(staff_accounts[c] /\ ~staff_accounts'[c])
      ]_vars

\* the response of a per-user read is what one state of wallets and ledger
\* gives: that balance, that number of transactions, a page of them
ReadOf(r, q, state) ==
    LET w == state[1]
        rows == Matching(state[2], q.user_id, "")
    IN /\ r.balance = IF q.user_id \in DOMAIN w THEN w[q.user_id] ELSE 0
       /\ r.total = Len(rows)
       /\ \E o \in order_by_created_at_desc(rows) :
             r.items = offset_limit(o, q.page, q.limit)

\* C29: the response of a successful get_user_tokens is the read of a single
\* committed state of wallets and ledger, one of those that held between its
\* first statement and its response, also when grants committed meanwhile.
C29_ConsistentSnapshot ==
    [][\A s \in Sessions :
          (pc[s] = "t_items" /\ pc'[s] = "done") =>
             \E state \in snapshots[s] \cup {<<wallets, ledger>>} :
                ReadOf(resp'[s], req[s], state)
      ]_vars

====
